---------------------------- MODULE Spec2Model ----------------------------
(***************************************************************************)
(* gin-contrib/size: the request-size limiting middleware.                 *)
(*                                                                         *)
(* One request is modelled: RequestSizeLimiter(limit) installs a           *)
(* maxBytesReader in front of the request body, the handler then reads     *)
(* and closes the body and writes its response.  The gate (mbr), the gin   *)
(* context it reports to (ctx) and the wrapped body stream (rdr) are the   *)
(* state; Read, Close and tooLarge are translated from src/size.go.        *)
(***************************************************************************)
EXTENDS Integers, Sequences, FiniteSets

\* ---------------------------------------------------------------- bounds
MaxBody == 3        \* longest request body, in bytes
MaxLimit == 2       \* largest limit handed to RequestSizeLimiter
MaxNeg == 1         \* limits range down to -MaxNeg (limit is an int64)
MaxBuf == 2         \* largest caller buffer, len(p)
MaxReads == 3       \* Read calls the handler makes at most
MaxCloses == 1      \* Close calls the handler makes at most
MaxConcBody == 2    \* concurrent runs: longest request body
MaxConcLimit == 1   \* concurrent runs: largest limit
MaxConcReads == 2   \* concurrent runs: Read calls each goroutine makes at most
MaxConcBuf == 1     \* concurrent runs: largest caller buffer

Byte == {0, 1}
Bodies == UNION {[1..k -> Byte] : k \in 0..MaxBody}
Limits == (0 - MaxNeg)..MaxLimit
BufSizes == 0..MaxBuf

Min(a, b) == IF a < b THEN a ELSE b

\* ------------------------------------------------------- error values
Nil == "nil"
EOF == "EOF"                                  \* io.EOF
ErrUnexpected == "unexpected error"           \* any other error of the body stream
ErrClose == "close error"                     \* an error of the body stream's Close
errRequestTooLarge == "HTTP request too large"

StatusRequestEntityTooLarge == 413
StatusBadRequest == 400
StatusOK == 200
TooLargeJSON == "{\"error\":\"request too large\"}"
HandlerPayload == "handler response"

VARIABLES
    limit,        \* the limit the middleware was built with
    body,         \* the bytes of the request body
    handlerKind,  \* which handler serves the request
    pc,           \* where the request is
    mbr,          \* the maxBytesReader: remaining, wasAborted, sawEOF
    ctx,          \* the gin context and its response writer
    rdr,          \* the wrapped body stream
    delivered,    \* the bytes the handler has received from Read so far
    gateReads,    \* Read calls made on the gate
    gateCloses,   \* Close calls made on the gate
    nonNilReads,  \* Read calls that returned a non-nil status
    zeroBufRead,  \* whether some Read call was made with len(p) = 0
    lastRead,     \* the last Read call: its entry state and what it returned
    lastClose,    \* the last Close call
    gates,        \* concurrent runs: the maxBytesReader of each request
    gctx,         \* concurrent runs: the gin context of each request
    grdr,         \* concurrent runs: the body stream of each request
    gbody,        \* concurrent runs: the body of each request
    procs         \* concurrent runs: the goroutines calling Read

\* The state of the runs with several goroutines; one request alone leaves it.
concVars == <<gates, gctx, grdr, gbody, procs>>

\* The state of one request served alone; the concurrent runs leave it.
soloVars == <<body, handlerKind, pc, mbr, ctx, rdr, delivered, gateReads,
              gateCloses, nonNilReads, zeroBufRead, lastRead, lastClose>>

vars == <<limit, body, handlerKind, pc, mbr, ctx, rdr, delivered, gateReads,
          gateCloses, nonNilReads, zeroBufRead, lastRead, lastClose,
          gates, gctx, grdr, gbody, procs>>

\* ------------------------------------------------------------ gin.Context
\* The context starts with no errors, an empty header map and nothing written.
NewContext ==
    [Errors |-> <<>>, Header |-> {}, written |-> FALSE, status |-> StatusOK,
     sentHeader |-> {}, body |-> <<>>, aborted |-> FALSE, calls |-> <<>>]

\* ctx.Error(err): appends err to ctx.Errors.
CtxError(cx, e) ==
    [cx EXCEPT !.Errors = Append(@, e), !.calls = Append(@, "Error")]

\* ctx.Header(key, value): sets the header in the response's header map.
CtxHeader(cx, k, v) ==
    [cx EXCEPT !.Header = {h \in @ : h[1] # k} \cup {<<k, v>>},
               !.calls = Append(@, "Header")]

\* Rendering a payload: the first write sends the status line and the header
\* map as it is then; a later write cannot change them and appends its payload.
CtxRender(cx, code, payload) ==
    IF cx.written
    THEN [cx EXCEPT !.body = Append(@, payload)]
    ELSE [cx EXCEPT !.written = TRUE, !.status = code, !.sentHeader = cx.Header,
                    !.body = Append(@, payload)]

\* ctx.AbortWithStatusJSON(code, obj): Abort, then JSON(code, obj).
CtxAbortWithStatusJSON(cx, code, payload) ==
    CtxRender([cx EXCEPT !.aborted = TRUE,
                         !.calls = Append(@, "AbortWithStatusJSON")],
              code, payload)

\* ctx.JSON(code, obj) / ctx.String(code, ...) of a handler.
CtxJSON(cx, code, payload) ==
    CtxRender([cx EXCEPT !.calls = Append(@, "JSON")], code, payload)

\* ------------------------------------------------------ the body stream
NewRdr == [pos |-> 0, reads |-> 0, closes |-> 0, failed |-> FALSE]

\* What a Read of the wrapped stream may return for a buffer of n bytes:
\* at most n bytes and at most what is left; io.EOF once nothing is left, or
\* together with the last bytes; (0, nil) for an empty buffer, where a stream
\* at its end may or may not report io.EOF; or an error of the transport.
RdrOutcomes(r, b, n) ==
    LET avail == Len(b) - r.pos
        most == Min(n, avail)
    IN  {[n |-> k, err |-> Nil] : k \in (IF n = 0 THEN 0 ELSE 1)..most}
        \cup (IF avail <= n THEN {[n |-> avail, err |-> EOF]} ELSE {})
        \cup {[n |-> k, err |-> ErrUnexpected] : k \in 0..most}

RdrAfterRead(r, out) ==
    [r EXCEPT !.pos = @ + out.n, !.reads = @ + 1,
              !.failed = @ \/ out.err = ErrUnexpected]

\* ------------------------------------------------------- maxBytesReader
NewReader(lim) == [remaining |-> lim, wasAborted |-> FALSE, sawEOF |-> FALSE]

\* tooLarge with the Connection header set only after the response is written.
tooLarge_HeaderLate(m, cx) ==
    IF ~m.wasAborted
    THEN [mbr |-> [m EXCEPT !.wasAborted = TRUE],
          ctx |-> CtxHeader(
                      CtxAbortWithStatusJSON(CtxError(cx, errRequestTooLarge),
                          StatusRequestEntityTooLarge, TooLargeJSON),
                      "Connection", "close"),
          n |-> 0, err |-> errRequestTooLarge]
    ELSE [mbr |-> m, ctx |-> cx, n |-> 0, err |-> errRequestTooLarge]

\* tooLarge: the abort sequence, once per reader, and (0, errRequestTooLarge).
tooLarge(m, cx) ==
    IF ~m.wasAborted
    THEN [mbr |-> [m EXCEPT !.wasAborted = TRUE],
          ctx |-> CtxAbortWithStatusJSON(
                      CtxHeader(CtxError(cx, errRequestTooLarge),
                                "Connection", "close"),
                      StatusRequestEntityTooLarge, TooLargeJSON),
          n |-> 0, err |-> errRequestTooLarge]
    ELSE [mbr |-> m, ctx |-> cx, n |-> 0, err |-> errRequestTooLarge]

\* ToRead whose probe at remaining = 0 asks for two bytes.
ToRead_ProbeWide(m) == IF m.remaining = 0 THEN 2 ELSE m.remaining

\* ToRead without the one-byte probe at remaining = 0.
ToRead_NoProbe(m) == m.remaining

\* Read, lines 40-52: how many bytes to ask the stream for.
ToRead(m) == IF m.remaining = 0 THEN 1 ELSE m.remaining

\* ReadPath that probes the stream again when remaining = 0 after io.EOF.
ReadPath_NoEOFBranch(m, c) ==
    IF m.wasAborted THEN "aborted"
    ELSE IF c > ToRead(m) /\ ToRead(m) < 0 THEN "panic"
    ELSE "read"

\* ReadPath without the early return of an aborted reader.
ReadPath_NoEarlyReturn(m, c) ==
    IF m.remaining = 0 /\ m.sawEOF THEN "tooLarge"
    ELSE IF c > ToRead(m) /\ ToRead(m) < 0 THEN "panic"
    ELSE "read"

\* Read, lines 36-55: what the call does before it reaches the stream.
\*   "aborted"  the early return of an aborted reader
\*   "tooLarge" remaining = 0 after io.EOF was seen
\*   "panic"    p[:toRead] with a negative toRead
\*   "read"     the stream is read
ReadPath(m, c) ==
    IF m.wasAborted THEN "aborted"
    ELSE IF m.remaining = 0 /\ m.sawEOF THEN "tooLarge"
    ELSE IF c > ToRead(m) /\ ToRead(m) < 0 THEN "panic"
    ELSE "read"

\* ReadLen that hands the stream the caller's whole buffer.
ReadLen_NoShrink(m, c) == c

\* Read, lines 53-55: the length of the buffer handed to the stream.
ReadLen(m, c) == IF c > ToRead(m) THEN ToRead(m) ELSE c

\* AfterRead that takes a probe that read nothing for an overflow too.
AfterRead_OffByOne(m, cx, out) ==
    LET m1 == IF out.err = EOF THEN [m EXCEPT !.sawEOF = TRUE] ELSE m
    IN  IF m1.remaining = 0
        THEN tooLarge(m1, cx)
        ELSE LET left == m1.remaining - out.n
             IN  [mbr |-> [m1 EXCEPT !.remaining = IF left < 0 THEN 0 ELSE left],
                  ctx |-> cx, n |-> out.n, err |-> out.err]

\* AfterRead that drops the stream's error when it has bytes to return.
AfterRead_DropsErr(m, cx, out) ==
    LET m1 == IF out.err = EOF THEN [m EXCEPT !.sawEOF = TRUE] ELSE m
    IN  IF m1.remaining = 0
        THEN IF out.n > 0
             THEN tooLarge(m1, cx)
             ELSE [mbr |-> m1, ctx |-> cx, n |-> 0, err |-> out.err]
        ELSE LET left == m1.remaining - out.n
             IN  [mbr |-> [m1 EXCEPT !.remaining = IF left < 0 THEN 0 ELSE left],
                  ctx |-> cx, n |-> out.n,
                  err |-> IF out.n > 0 THEN Nil ELSE out.err]

\* AfterRead that sets sawEOF to whether this read reported io.EOF.
AfterRead_EOFNotSticky(m, cx, out) ==
    LET m1 == [m EXCEPT !.sawEOF = (out.err = EOF)]
    IN  IF m1.remaining = 0
        THEN IF out.n > 0
             THEN tooLarge(m1, cx)
             ELSE [mbr |-> m1, ctx |-> cx, n |-> 0, err |-> out.err]
        ELSE LET left == m1.remaining - out.n
             IN  [mbr |-> [m1 EXCEPT !.remaining = IF left < 0 THEN 0 ELSE left],
                  ctx |-> cx, n |-> out.n, err |-> out.err]

\* AfterRead that forgets to take the bytes read off remaining.
AfterRead_NoDecrement(m, cx, out) ==
    LET m1 == IF out.err = EOF THEN [m EXCEPT !.sawEOF = TRUE] ELSE m
    IN  IF m1.remaining = 0
        THEN IF out.n > 0
             THEN tooLarge(m1, cx)
             ELSE [mbr |-> m1, ctx |-> cx, n |-> 0, err |-> out.err]
        ELSE [mbr |-> m1, ctx |-> cx, n |-> out.n, err |-> out.err]

\* AfterRead that adds the bytes read to remaining.
AfterRead_AddsN(m, cx, out) ==
    LET m1 == IF out.err = EOF THEN [m EXCEPT !.sawEOF = TRUE] ELSE m
    IN  IF m1.remaining = 0
        THEN IF out.n > 0
             THEN tooLarge(m1, cx)
             ELSE [mbr |-> m1, ctx |-> cx, n |-> 0, err |-> out.err]
        ELSE LET left == m1.remaining + out.n
             IN  [mbr |-> [m1 EXCEPT !.remaining = IF left < 0 THEN 0 ELSE left],
                  ctx |-> cx, n |-> out.n, err |-> out.err]

\* Read, lines 58-75: after the stream returned out = (n, err).
AfterRead(m, cx, out) ==
    LET m1 == IF out.err = EOF THEN [m EXCEPT !.sawEOF = TRUE] ELSE m
    IN  IF m1.remaining = 0
        THEN IF out.n > 0
             THEN tooLarge(m1, cx)
             ELSE [mbr |-> m1, ctx |-> cx, n |-> 0, err |-> out.err]
        ELSE LET left == m1.remaining - out.n
             IN  [mbr |-> [m1 EXCEPT !.remaining = IF left < 0 THEN 0 ELSE left],
                  ctx |-> cx, n |-> out.n, err |-> out.err]

\* Close that forwards to the stream's Close but reports success always.
MbrClose_Swallow(m, r, e) ==
    [mbr |-> m, rdr |-> [r EXCEPT !.closes = @ + 1], err |-> Nil]

\* Close: forwards to the stream's Close, which returns e, and returns that.
MbrClose(m, r, e) ==
    [mbr |-> m, rdr |-> [r EXCEPT !.closes = @ + 1], err |-> e]

\* ------------------------------------------------------------- the request
NoRead ==
    [c |-> 0, len |-> 0, path |-> "none", rdrN |-> 0, rdrErr |-> Nil,
     n |-> 0, err |-> Nil, entry |-> NewReader(0)]
NoClose == [rdrErr |-> Nil, err |-> Nil, entry |-> NewReader(0)]

Init ==
    /\ limit \in Limits
    /\ body \in Bodies
    /\ handlerKind \in {"checkFirst", "checkAfter"}
    /\ pc = "start"
    /\ mbr = NewReader(0)
    /\ ctx = NewContext
    /\ rdr = NewRdr
    /\ delivered = <<>>
    /\ gateReads = 0
    /\ gateCloses = 0
    /\ nonNilReads = 0
    /\ zeroBufRead = FALSE
    /\ lastRead = NoRead
    /\ lastClose = NoClose
    /\ gates = <<>> /\ gctx = <<>> /\ grdr = <<>> /\ gbody = <<>>
    /\ procs = <<>>

\* A middleware that compares the body with the limit when it is installed and
\* aborts there, before any handler has read.
RequestSizeLimiter_Eager ==
    /\ pc = "start"
    /\ LET res == IF Len(body) > limit
                  THEN tooLarge(NewReader(limit), ctx)
                  ELSE [mbr |-> NewReader(limit), ctx |-> ctx]
       IN  mbr' = res.mbr /\ ctx' = res.ctx
    /\ pc' = IF handlerKind = "checkFirst" THEN "entry" ELSE "body"
    /\ UNCHANGED <<limit, body, handlerKind, rdr, delivered, gateReads,
                   gateCloses, nonNilReads, zeroBufRead, lastRead, lastClose>>
    /\ UNCHANGED concVars

\* The middleware: wraps the body and calls ctx.Next(), which enters the handler.
RequestSizeLimiter ==
    /\ pc = "start"
    /\ mbr' = NewReader(limit)
    /\ pc' = IF handlerKind = "checkFirst" THEN "entry" ELSE "body"
    /\ UNCHANGED <<limit, body, handlerKind, ctx, rdr, delivered, gateReads,
                   gateCloses, nonNilReads, zeroBufRead, lastRead, lastClose>>
    /\ UNCHANGED concVars

\* A handler that checks ctx.Errors first: it returns when there is one.
CheckErrorsFirst ==
    /\ pc = "entry"
    /\ pc' = IF Len(ctx.Errors) > 0 THEN "done" ELSE "body"
    /\ UNCHANGED <<limit, body, handlerKind, mbr, ctx, rdr, delivered, gateReads,
                   gateCloses, nonNilReads, zeroBufRead, lastRead, lastClose>>
    /\ UNCHANGED concVars

\* What one Read call leaves behind, given its result res and the stream's outcome.
ReadDone(c, path, out, res, data) ==
    /\ mbr' = res.mbr
    /\ ctx' = res.ctx
    /\ delivered' = delivered \o SubSeq(data, 1, res.n)
    /\ gateReads' = gateReads + 1
    /\ nonNilReads' = nonNilReads + (IF res.err # Nil THEN 1 ELSE 0)
    /\ zeroBufRead' = (zeroBufRead \/ c = 0)
    /\ lastRead' = [c |-> c, len |-> ReadLen(mbr, c), path |-> path,
                    rdrN |-> out.n, rdrErr |-> out.err,
                    n |-> res.n, err |-> res.err, entry |-> mbr]

\* The handler calls Request.Body.Read(p) with len(p) = c.
Read(c) ==
    /\ pc = "body"
    /\ gateReads < MaxReads
    /\ LET path == ReadPath(mbr, c)
           none == [n |-> 0, err |-> Nil]
       IN  CASE path = "aborted" ->
                  /\ ReadDone(c, path, none,
                              [mbr |-> mbr, ctx |-> ctx, n |-> 0,
                               err |-> errRequestTooLarge], <<>>)
                  /\ UNCHANGED <<rdr, pc>>
             [] path = "tooLarge" ->
                  /\ ReadDone(c, path, none, tooLarge(mbr, ctx), <<>>)
                  /\ UNCHANGED <<rdr, pc>>
             [] path = "panic" ->
                  /\ pc' = "panicked"
                  /\ gateReads' = gateReads + 1
                  /\ lastRead' = [NoRead EXCEPT !.c = c, !.path = path, !.entry = mbr]
                  /\ UNCHANGED <<mbr, ctx, rdr, delivered, nonNilReads, zeroBufRead>>
             [] path = "read" ->
                  \E out \in RdrOutcomes(rdr, body, ReadLen(mbr, c)) :
                      /\ ReadDone(c, path, out, AfterRead(mbr, ctx, out),
                                  SubSeq(body, rdr.pos + 1, rdr.pos + out.n))
                      /\ rdr' = RdrAfterRead(rdr, out)
                      /\ UNCHANGED pc
    /\ UNCHANGED <<limit, body, handlerKind, gateCloses, lastClose>>
    /\ UNCHANGED concVars

\* The handler calls Request.Body.Close().
Close ==
    /\ pc = "body"
    /\ gateCloses < MaxCloses
    /\ \E e \in {Nil, ErrClose} :
          LET res == MbrClose(mbr, rdr, e)
          IN  /\ rdr' = res.rdr
              /\ mbr' = res.mbr
              /\ lastClose' = [rdrErr |-> e, err |-> res.err, entry |-> mbr]
    /\ gateCloses' = gateCloses + 1
    /\ UNCHANGED <<limit, body, handlerKind, pc, ctx, delivered, gateReads,
                   nonNilReads, zeroBufRead, lastRead>>
    /\ UNCHANGED concVars

\* The handler's own response: an error response when reading the body failed.
HandlerStatus ==
    IF lastRead.err \in {Nil, EOF} THEN StatusOK ELSE StatusBadRequest

\* The rest of a handler that checked ctx.Errors first: it writes its response.
RespondAfterBody ==
    /\ pc = "body"
    /\ handlerKind = "checkFirst"
    /\ ctx' = CtxJSON(ctx, HandlerStatus, HandlerPayload)
    /\ pc' = "done"
    /\ UNCHANGED <<limit, body, handlerKind, mbr, rdr, delivered, gateReads,
                   gateCloses, nonNilReads, zeroBufRead, lastRead, lastClose>>
    /\ UNCHANGED concVars

\* The rest of a handler that checks ctx.Errors after using the body.
CheckErrorsThenRespond ==
    /\ pc = "body"
    /\ handlerKind = "checkAfter"
    /\ ctx' = IF Len(ctx.Errors) > 0 THEN ctx
              ELSE CtxJSON(ctx, StatusOK, HandlerPayload)
    /\ pc' = "done"
    /\ UNCHANGED <<limit, body, handlerKind, mbr, rdr, delivered, gateReads,
                   gateCloses, nonNilReads, zeroBufRead, lastRead, lastClose>>
    /\ UNCHANGED concVars

Next ==
    \/ RequestSizeLimiter
    \/ CheckErrorsFirst
    \/ \E c \in BufSizes : Read(c)
    \/ Close
    \/ RespondAfterBody
    \/ CheckErrorsThenRespond

Spec == Init /\ [][Next]_vars

\* ------------------------------------------------- concurrent goroutines
\* Read and tooLarge step by step, for goroutines that run at the same time:
\* two Read calls on one reader (SpecRace), or two requests, each with its own
\* reader, served by one middleware (SpecTwo).  A step is at most one access
\* to the reader's fields, the stream or the context.
Procs == {1, 2}
ConcLimits == 0..MaxConcLimit
ConcBufSizes == 0..MaxConcBuf

\* The bodies of request g: its bytes differ from those of the other request.
ConcBodies(g) == {[i \in 1..k |-> g - 1] : k \in 0..MaxConcBody}

\* A request served alone, as far as Read goes: its reader, its context, the
\* position of its stream and the bytes its caller has.
NewSeq(lim) ==
    [mbr |-> NewReader(lim), ctx |-> NewContext, pos |-> 0, delivered |-> <<>>]

\* One whole Read call with len(p) = c on a request served alone, the stream
\* returning out when it is read; b is the request's body.
SeqRead(sq, b, c, out) ==
    LET path == ReadPath(sq.mbr, c)
    IN  CASE path = "aborted" -> sq
          [] path = "panic" -> sq
          [] path = "tooLarge" ->
               LET res == tooLarge(sq.mbr, sq.ctx)
               IN  [sq EXCEPT !.mbr = res.mbr, !.ctx = res.ctx]
          [] path = "read" ->
               LET res == AfterRead(sq.mbr, sq.ctx, out)
               IN  [mbr |-> res.mbr, ctx |-> res.ctx, pos |-> sq.pos + out.n,
                    delivered |-> sq.delivered
                                    \o SubSeq(b, sq.pos + 1, sq.pos + res.n)]

\* Goroutine p serves request g; alone is what its Read calls so far, with
\* what the stream returned to them, do to a request served alone.
NewProc(g, lim) ==
    [gate |-> g, pc |-> "idle", c |-> 0, len |-> 0, n |-> 0, err |-> Nil,
     buf |-> <<>>, calls |-> 0, delivered |-> <<>>, alone |-> NewSeq(lim)]

\* A middleware that hands every request the one reader it made when it was built.
GateOf_Shared(p) == 1

\* The reader goroutine p reads through: the one in its request's Body.
GateOf(p) == procs[p].gate

\* The old variables do not move in the concurrent runs.
SoloIdle ==
    /\ body = <<>>
    /\ handlerKind = "checkAfter"
    /\ pc = "start"
    /\ mbr = NewReader(0)
    /\ ctx = NewContext
    /\ rdr = NewRdr
    /\ delivered = <<>>
    /\ gateReads = 0
    /\ gateCloses = 0
    /\ nonNilReads = 0
    /\ zeroBufRead = FALSE
    /\ lastRead = NoRead
    /\ lastClose = NoClose

\* Two goroutines call Read on the reader of one request.
InitRace ==
    /\ limit \in ConcLimits
    /\ SoloIdle
    /\ gbody \in [{1} -> ConcBodies(1)]
    /\ gates = [g \in {1} |-> NewReader(limit)]
    /\ gctx = [g \in {1} |-> NewContext]
    /\ grdr = [g \in {1} |-> NewRdr]
    /\ procs = [p \in Procs |-> NewProc(1, limit)]

\* Two requests, each with its own reader, context and body, and one goroutine each.
InitTwo ==
    /\ limit \in ConcLimits
    /\ SoloIdle
    /\ gbody \in {f \in [Procs -> UNION {ConcBodies(g) : g \in Procs}] :
                    \A g \in Procs : f[g] \in ConcBodies(g)}
    /\ gates = [g \in Procs |-> NewReader(limit)]
    /\ gctx = [g \in Procs |-> NewContext]
    /\ grdr = [g \in Procs |-> NewRdr]
    /\ procs = [p \in Procs |-> NewProc(p, limit)]

\* Goroutine p returns (n, err) from Read; its caller keeps the first n bytes.
Return(p, n, err) ==
    procs' = [procs EXCEPT
        ![p].pc = "idle",
        ![p].delivered = @ \o SubSeq(procs[p].buf, 1, n),
        ![p].alone = SeqRead(@, gbody[procs[p].gate], procs[p].c,
                             [n |-> procs[p].n, err |-> procs[p].err])]

\* Goroutine p calls Read(buf) with len(buf) = c.
CallRead(p, c) ==
    /\ procs[p].pc = "idle"
    /\ procs[p].calls < MaxConcReads
    /\ procs' = [procs EXCEPT ![p].pc = "r36", ![p].c = c, ![p].buf = <<>>,
                              ![p].n = 0, ![p].err = Nil, ![p].calls = @ + 1]
    /\ UNCHANGED <<gates, gctx, grdr, gbody, limit, soloVars>>

\* Read, lines 36-55: the checks before the stream is read.
Enter(p) ==
    /\ procs[p].pc = "r36"
    /\ LET m == gates[GateOf(p)]
           path == ReadPath(m, procs[p].c)
       IN  CASE path = "aborted" -> Return(p, 0, errRequestTooLarge)
             [] path = "tooLarge" -> procs' = [procs EXCEPT ![p].pc = "t23"]
             [] path = "panic" -> procs' = [procs EXCEPT ![p].pc = "panicked"]
             [] path = "read" ->
                  procs' = [procs EXCEPT ![p].pc = "r57",
                                         ![p].len = ReadLen(m, procs[p].c)]
    /\ UNCHANGED <<gates, gctx, grdr, gbody, limit, soloVars>>

\* Read, lines 57-60: the stream is read and io.EOF is noted.
StreamRead(p) ==
    /\ procs[p].pc = "r57"
    /\ LET g == GateOf(p)
       IN  \E out \in RdrOutcomes(grdr[g], gbody[g], procs[p].len) :
              /\ grdr' = [grdr EXCEPT ![g] = RdrAfterRead(@, out)]
              /\ gates' = [gates EXCEPT ![g].sawEOF = @ \/ out.err = EOF]
              /\ procs' = [procs EXCEPT
                    ![p].pc = "r62", ![p].n = out.n, ![p].err = out.err,
                    ![p].buf = SubSeq(gbody[g], grdr[g].pos + 1,
                                      grdr[g].pos + out.n)]
    /\ UNCHANGED <<gctx, gbody, limit, soloVars>>

\* Read, lines 62-75: the overflow check and the count of what is left.
PostRead(p) ==
    /\ procs[p].pc = "r62"
    /\ LET g == GateOf(p)
           left == gates[g].remaining - procs[p].n
       IN  IF gates[g].remaining = 0
           THEN /\ IF procs[p].n > 0
                   THEN procs' = [procs EXCEPT ![p].pc = "t23"]
                   ELSE Return(p, 0, procs[p].err)
                /\ UNCHANGED gates
           ELSE /\ gates' = [gates EXCEPT
                                ![g].remaining = IF left < 0 THEN 0 ELSE left]
                /\ Return(p, procs[p].n, procs[p].err)
    /\ UNCHANGED <<gctx, grdr, gbody, limit, soloVars>>

\* tooLarge, line 23: the test of wasAborted.
TooLargeCheck(p) ==
    /\ procs[p].pc = "t23"
    /\ IF ~gates[GateOf(p)].wasAborted
       THEN procs' = [procs EXCEPT ![p].pc = "t24"]
       ELSE Return(p, 0, errRequestTooLarge)
    /\ UNCHANGED <<gates, gctx, grdr, gbody, limit, soloVars>>

\* tooLarge, line 24: wasAborted is set.
TooLargeMark(p) ==
    /\ procs[p].pc = "t24"
    /\ gates' = [gates EXCEPT ![GateOf(p)].wasAborted = TRUE]
    /\ procs' = [procs EXCEPT ![p].pc = "t25"]
    /\ UNCHANGED <<gctx, grdr, gbody, limit, soloVars>>

\* tooLarge, line 25: the error is recorded.
TooLargeError(p) ==
    /\ procs[p].pc = "t25"
    /\ gctx' = [gctx EXCEPT ![GateOf(p)] = CtxError(@, errRequestTooLarge)]
    /\ procs' = [procs EXCEPT ![p].pc = "t26"]
    /\ UNCHANGED <<gates, grdr, gbody, limit, soloVars>>

\* tooLarge, line 26: the Connection header is set.
TooLargeHeader(p) ==
    /\ procs[p].pc = "t26"
    /\ gctx' = [gctx EXCEPT ![GateOf(p)] = CtxHeader(@, "Connection", "close")]
    /\ procs' = [procs EXCEPT ![p].pc = "t27"]
    /\ UNCHANGED <<gates, grdr, gbody, limit, soloVars>>

\* tooLarge, lines 27-31: the 413 response is written, and the call returns.
TooLargeRespond(p) ==
    /\ procs[p].pc = "t27"
    /\ gctx' = [gctx EXCEPT ![GateOf(p)] =
                   CtxAbortWithStatusJSON(@, StatusRequestEntityTooLarge,
                                          TooLargeJSON)]
    /\ Return(p, 0, errRequestTooLarge)
    /\ UNCHANGED <<gates, grdr, gbody, limit, soloVars>>

NextConc ==
    \/ \E p \in Procs, c \in ConcBufSizes : CallRead(p, c)
    \/ \E p \in Procs : Enter(p)
    \/ \E p \in Procs : StreamRead(p)
    \/ \E p \in Procs : PostRead(p)
    \/ \E p \in Procs : TooLargeCheck(p)
    \/ \E p \in Procs : TooLargeMark(p)
    \/ \E p \in Procs : TooLargeError(p)
    \/ \E p \in Procs : TooLargeHeader(p)
    \/ \E p \in Procs : TooLargeRespond(p)

SpecRace == InitRace /\ [][NextConc]_vars

SpecTwo == InitTwo /\ [][NextConc]_vars

\* ------------------------------------------------------------ properties
Count(seq, x) == Cardinality({i \in DOMAIN seq : seq[i] = x})

\* The abort sequence has been performed exactly once on context cx: one error,
\* the Connection header sent, status 413 and one copy of the JSON payload.
AbortFiredOnce(cx) ==
    /\ cx.Errors = <<errRequestTooLarge>>
    /\ Count(cx.calls, "Error") = 1
    /\ Count(cx.calls, "Header") = 1
    /\ Count(cx.calls, "AbortWithStatusJSON") = 1
    /\ <<"Connection", "close">> \in cx.sentHeader
    /\ cx.status = StatusRequestEntityTooLarge
    /\ Count(cx.body, TooLargeJSON) = 1
    /\ cx.aborted

\* No part of the abort sequence has been performed on context cx.
NoAbort(cx) ==
    /\ cx.Errors = <<>>
    /\ Count(cx.calls, "AbortWithStatusJSON") = 0
    /\ Count(cx.body, TooLargeJSON) = 0
    /\ ~cx.aborted

\* The last Read call is the first one that returned a non-nil status, every
\* Read so far had a non-empty buffer, and the status is not an error of the
\* body stream that Read passed on.
ReadToFirstStatus ==
    /\ nonNilReads = 1
    /\ lastRead.err # Nil
    /\ lastRead.err # ErrUnexpected
    /\ ~zeroBufRead

\* C1: with a limit L >= 0 and a body longer than L, a caller that reads with
\* non-empty buffers until the first non-nil status has received exactly the
\* first L bytes of the body, that status is (0, errRequestTooLarge), and the
\* abort sequence has been performed exactly once.
C1_OversizeReadsLimitThenOverflow ==
    (limit >= 0 /\ Len(body) > limit /\ ReadToFirstStatus)
        => /\ delivered = SubSeq(body, 1, limit)
           /\ lastRead.n = 0
           /\ lastRead.err = errRequestTooLarge
           /\ mbr.wasAborted
           /\ AbortFiredOnce(ctx)

\* C1 witness: a body of three bytes read against a limit of two in one-byte
\* chunks, up to the overflow error.
C1_Witness ==
    /\ limit = 2 /\ Len(body) = 3 /\ ReadToFirstStatus
    /\ gateReads = 3
    /\ lastRead.err = errRequestTooLarge

\* C2: with a limit L >= 0 and a body of at most L bytes, a caller that reads
\* with non-empty buffers until the first non-nil status has received exactly
\* the body, that status is io.EOF, and no abort has happened and ctx.Errors
\* is empty.
C2_BodyWithinLimitReadsToEOF ==
    (limit >= 0 /\ Len(body) <= limit /\ ReadToFirstStatus)
        => /\ delivered = body
           /\ lastRead.err = EOF
           /\ ~mbr.wasAborted
           /\ NoAbort(ctx)

\* C2 witness: a body of exactly the limit, two bytes, read in one-byte chunks
\* and then to io.EOF.
C2_Witness ==
    /\ limit = 2 /\ Len(body) = 2 /\ ReadToFirstStatus
    /\ gateReads = 3
    /\ delivered = body

\* C3 (as claimed): with a body of exactly L bytes the reader never aborts and
\* no Read returns errRequestTooLarge, however many Read calls are made.
C3_ExactLimitNeverAborts ==
    (pc # "start" /\ limit >= 0 /\ Len(body) = limit
        /\ ~zeroBufRead /\ ~rdr.failed)
        => /\ ~mbr.wasAborted
           /\ lastRead.err # errRequestTooLarge
           /\ NoAbort(ctx)

\* A step is a Read call on the gate.
ReadStep == gateReads' = gateReads + 1

\* C4: a Read call on a reader that has aborted returns (0,
\* errRequestTooLarge), does not call the body stream, and leaves the context
\* (errors, headers, response) as it was.
C4_ReadAfterAbortIsInert ==
    [][(mbr.wasAborted /\ ReadStep)
        => /\ lastRead'.n = 0
           /\ lastRead'.err = errRequestTooLarge
           /\ rdr' = rdr
           /\ ctx' = ctx
           /\ mbr' = mbr
           /\ delivered' = delivered]_vars

\* C4 witness: a Read call was made on a reader that had already aborted,
\* while the body stream had bytes left.
C4_Witness ==
    /\ lastRead.entry.wasAborted
    /\ lastRead.c > 0
    /\ rdr.pos < Len(body)

\* C5: once the reader has aborted, the context has seen Error, Header and
\* AbortWithStatusJSON in this order, holds exactly the one error "HTTP request
\* too large", and the response went out with Connection: close, status 413
\* and the JSON payload first; the context is aborted.
C5_AbortSequenceOrder ==
    mbr.wasAborted
        => /\ Len(ctx.calls) >= 3
           /\ SubSeq(ctx.calls, 1, 3) = <<"Error", "Header", "AbortWithStatusJSON">>
           /\ ctx.Errors = <<errRequestTooLarge>>
           /\ <<"Connection", "close">> \in ctx.sentHeader
           /\ ctx.status = StatusRequestEntityTooLarge
           /\ ctx.body[1] = TooLargeJSON
           /\ ctx.aborted

\* C5 witness: a handler has read a body of more than the limit up to the
\* overflow error, which the one-byte probe detected.
C5_Witness ==
    /\ mbr.wasAborted
    /\ limit >= 1 /\ Len(body) > limit
    /\ lastRead.path = "read"
    /\ lastRead.err = errRequestTooLarge
    /\ Len(ctx.Errors) = 1

\* C6 (as claimed): a handler that checks ctx.Errors first, then reads the body
\* and writes its response, never has more than one payload written for its
\* request.
C6_CheckFirstHandlerWritesOnce ==
    handlerKind = "checkFirst" => Len(ctx.body) <= 1

\* C7: for an empty body and a limit L >= 0, the first Read call, made with a
\* non-empty buffer on a stream that does not fail, returns (0, io.EOF), and
\* leaves the reader not aborted and the context without error or 413.
C7_EmptyBodyFirstReadIsEOF ==
    (limit >= 0 /\ Len(body) = 0 /\ gateReads = 1 /\ lastRead.c > 0
        /\ lastRead.rdrErr # ErrUnexpected)
        => /\ lastRead.n = 0
           /\ lastRead.err = EOF
           /\ ~mbr.wasAborted
           /\ NoAbort(ctx)

\* C7 witness: the first Read of an empty body under a limit of 0 has returned.
C7_Witness ==
    /\ limit = 0 /\ Len(body) = 0 /\ gateReads = 1 /\ lastRead.c > 0
    /\ lastRead.path = "read"
    /\ lastRead.err = EOF

\* C8 (as claimed): whenever the body stream's Read returns an error, the
\* gate's Read returns that error and the stream's byte count.
C8_StreamErrorAlwaysPassedOn ==
    (lastRead.path = "read" /\ lastRead.rdrErr # Nil)
        => /\ lastRead.err = lastRead.rdrErr
           /\ lastRead.n = lastRead.rdrN

\* The last Read call was a probe at remaining = 0 that got a byte.
ProbeGotByte ==
    /\ lastRead.path = "read"
    /\ lastRead.entry.remaining = 0
    /\ lastRead.rdrN > 0

\* C8 (amended): whenever the body stream's Read returns an error, the gate's
\* Read returns that error and the stream's byte count, unless the call was
\* entered with remaining = 0 and the stream returned a byte: then it returns
\* (0, errRequestTooLarge) in place of the stream's count and error.
C8_StreamErrorPassedOnUnlessOverflow ==
    (lastRead.path = "read" /\ lastRead.rdrErr # Nil)
        => IF ProbeGotByte
           THEN lastRead.n = 0 /\ lastRead.err = errRequestTooLarge
           ELSE lastRead.err = lastRead.rdrErr /\ lastRead.n = lastRead.rdrN

\* C8 witness: the stream returned bytes together with an error other than
\* io.EOF while the reader had room left, and Read returned.
C8_Witness ==
    /\ lastRead.path = "read"
    /\ lastRead.rdrErr = ErrUnexpected
    /\ lastRead.rdrN > 0
    /\ lastRead.entry.remaining > 0
    /\ lastRead.err = ErrUnexpected

\* C9 (as claimed): no Read or Close call panics, for any int64 limit.
C9_NoPanic == pc # "panicked"

\* A step is a Close call on the gate.
CloseStep == gateCloses' = gateCloses + 1

\* C10: a Close call on the gate calls the body stream's Close exactly once,
\* returns what that returned, and leaves the reader's fields, the context and
\* the stream's read position as they were.
C10_CloseForwardsAndChangesNothing ==
    [][CloseStep
        => /\ rdr'.closes = rdr.closes + 1
           /\ lastClose'.err = lastClose'.rdrErr
           /\ mbr' = mbr
           /\ ctx' = ctx
           /\ rdr'.pos = rdr.pos
           /\ rdr'.reads = rdr.reads
           /\ delivered' = delivered]_vars

\* C10 witness: Close was called on a reader that had aborted, and the body
\* stream's Close failed.
C10_Witness ==
    /\ gateCloses >= 1
    /\ lastClose.entry.wasAborted
    /\ lastClose.rdrErr = ErrClose
    /\ lastClose.err = ErrClose

\* C11: installing the gate reads nothing from the body stream, writes nothing
\* to the context and enters the handler; the reader aborts, an error is
\* recorded and the 413 payload is written only in a step that is a Read call.
C11_InstallReadsNothingAbortOnlyInRead ==
    [][/\ pc = "start"
          => /\ rdr' = rdr
             /\ ctx' = ctx
             /\ ~mbr'.wasAborted
             /\ pc' \in {"entry", "body"}
       /\ ~ReadStep
          => /\ mbr'.wasAborted = mbr.wasAborted
             /\ ctx'.Errors = ctx.Errors
             /\ Count(ctx'.body, TooLargeJSON) = Count(ctx.body, TooLargeJSON)
             /\ rdr'.reads = rdr.reads]_vars

\* C11 witness: a request with a body longer than the limit was served by a
\* handler that closed the body and responded without reading: nothing was
\* read, no error is recorded and no 413 was written.
C11_Witness ==
    /\ pc = "done"
    /\ limit >= 0 /\ Len(body) > limit
    /\ gateReads = 0 /\ gateCloses = 1
    /\ rdr.reads = 0
    /\ NoAbort(ctx)
    /\ ctx.status = StatusOK /\ ctx.body = <<HandlerPayload>>

\* C13: for a limit L >= 0, L - remaining is the number of bytes Read has
\* returned to its caller so far, which is therefore at most L; and a Read that
\* returned errRequestTooLarge left remaining as it found it.
C13_RemainingCountsDeliveredBytes ==
    (pc # "start" /\ limit >= 0)
        => /\ limit - mbr.remaining = Len(delivered)
           /\ Len(delivered) <= limit
           /\ lastRead.err = errRequestTooLarge
              => mbr.remaining = lastRead.entry.remaining

\* C13 witness: two bytes were delivered under a limit of two by two Read
\* calls, and a third Read found the overflow.
C13_Witness ==
    /\ limit = 2 /\ Len(delivered) = 2 /\ mbr.remaining = 0
    /\ gateReads = 3
    /\ lastRead.err = errRequestTooLarge

\* C14: for a limit L >= 0, 0 <= remaining <= L in every state after the gate
\* is installed, and no Read or Close call, nor any other step, increases
\* remaining.
C14_RemainingBoundedAndNonIncreasing ==
    /\ []((pc # "start" /\ limit >= 0)
            => (0 <= mbr.remaining /\ mbr.remaining <= limit))
    /\ [][pc # "start" => mbr'.remaining <= mbr.remaining]_vars

\* C14 witness: remaining has gone from a limit of two down to zero, by Read
\* calls, with a Close call made too.
C14_Witness ==
    /\ limit = 2 /\ mbr.remaining = 0
    /\ gateReads >= 2 /\ gateCloses = 1

\* C15: a Read call entered with remaining = 0 and sawEOF set, on a reader
\* that has not aborted, performs the abort sequence and returns (0,
\* errRequestTooLarge) without calling the body stream, whatever the body.
C15_ReadAtLimitAfterEOFAborts ==
    [][(ReadStep /\ mbr.remaining = 0 /\ mbr.sawEOF /\ ~mbr.wasAborted)
        => /\ rdr' = rdr
           /\ lastRead'.n = 0
           /\ lastRead'.err = errRequestTooLarge
           /\ mbr' = [mbr EXCEPT !.wasAborted = TRUE]
           /\ NoAbort(ctx)
           /\ AbortFiredOnce(ctx')
           /\ delivered' = delivered]_vars

\* C15 witness: such a Read call was made on a body shorter than the limit
\* allows for, and returned the overflow error.
C15_Witness ==
    /\ lastRead.path = "tooLarge"
    /\ lastRead.entry.remaining = 0 /\ lastRead.entry.sawEOF
    /\ ~lastRead.entry.wasAborted
    /\ Len(body) = limit /\ limit >= 1
    /\ lastRead.err = errRequestTooLarge

\* The last Read call was entered with remaining = 0 and sawEOF not set.
EnteredAtLimitBeforeEOF ==
    /\ gateReads > 0
    /\ lastRead.entry.remaining = 0
    /\ ~lastRead.entry.sawEOF

\* What a probe of one byte returns to the caller: the overflow when it got a
\* byte, which is not delivered, and else nothing with the stream's status.
ProbeOutcome ==
    /\ lastRead.path = "read"
    /\ lastRead.len = 1
    /\ lastRead.n = 0
    /\ Len(delivered) = limit
    /\ IF lastRead.rdrN > 0
       THEN lastRead.err = errRequestTooLarge /\ mbr.wasAborted
       ELSE lastRead.err = lastRead.rdrErr /\ ~mbr.wasAborted

\* C16 (as claimed): a Read call entered with remaining = 0 and sawEOF not set
\* asks the stream for exactly one byte, for every buffer capacity C >= 0, and
\* returns the overflow or the stream's status as the probe decides.
C16_ProbeForEveryCapacity == EnteredAtLimitBeforeEOF => ProbeOutcome

\* C16 (amended): a Read call entered with remaining = 0 and sawEOF not set,
\* on a reader that has not aborted and with a buffer of capacity C >= 1, asks
\* the stream for exactly one byte; if the probe yields a byte the reader
\* aborts and the call returns (0, errRequestTooLarge), the byte not being
\* delivered, and if not the call returns (0, status of the stream's read).
C16_ProbeForNonEmptyBuffer ==
    (EnteredAtLimitBeforeEOF /\ ~lastRead.entry.wasAborted /\ lastRead.c >= 1)
        => ProbeOutcome

\* C16 witness: a probe made with a buffer of two bytes got a byte.
C16_Witness ==
    /\ EnteredAtLimitBeforeEOF /\ ~lastRead.entry.wasAborted
    /\ lastRead.c = 2 /\ lastRead.len = 1
    /\ lastRead.rdrN = 1
    /\ lastRead.err = errRequestTooLarge

Max(a, b) == IF a > b THEN a ELSE b

\* C17: a Read call reads the body stream at most once, with a buffer of at
\* most min(C, max(remaining, 1)) bytes, and not at all on a reader that has
\* aborted; over its lifetime a gate with limit L >= 0 takes at most L + 1
\* bytes from the stream.
C17_AtMostOneBoundedStreamRead ==
    /\ [][ReadStep
            => /\ rdr'.reads <= rdr.reads + 1
               /\ rdr'.reads = rdr.reads + 1
                  => /\ lastRead'.len <= Min(lastRead'.c, Max(mbr.remaining, 1))
                     /\ rdr'.pos - rdr.pos <= lastRead'.len
               /\ rdr'.reads = rdr.reads => rdr'.pos = rdr.pos
               /\ mbr.wasAborted => rdr' = rdr]_vars
    /\ [](limit >= 0 => rdr.pos <= limit + 1)

\* C17 witness: the gate has taken L + 1 bytes from the stream, the last one
\* by the probe, and a further Read call was made after the abort.
C17_Witness ==
    /\ limit = 1 /\ rdr.pos = 2 /\ Len(body) = 3
    /\ mbr.wasAborted
    /\ lastRead.entry.wasAborted
    /\ rdr.reads = 2 /\ gateReads = 3

\* C18: after the gate is installed, sawEOF and wasAborted never go from true
\* to false; sawEOF becomes true only in a Read call whose read of the stream
\* reported io.EOF, and wasAborted only in a Read call that performs the abort
\* sequence.
C18_FlagsAreSticky ==
    [][pc # "start"
        => /\ mbr.sawEOF => mbr'.sawEOF
           /\ mbr.wasAborted => mbr'.wasAborted
           /\ (~mbr.sawEOF /\ mbr'.sawEOF)
              => (ReadStep /\ lastRead'.path = "read" /\ lastRead'.rdrErr = EOF)
           /\ (~mbr.wasAborted /\ mbr'.wasAborted)
              => /\ ReadStep
                 /\ ctx'.calls = ctx.calls
                       \o <<"Error", "Header", "AbortWithStatusJSON">>]_vars

\* C18 witness: with both flags set, a Read call and a Close call were made
\* and both flags are still set.
C18_Witness ==
    /\ mbr.sawEOF /\ mbr.wasAborted
    /\ lastRead.entry.sawEOF /\ lastRead.entry.wasAborted
    /\ gateCloses = 1
    /\ lastClose.entry.sawEOF /\ lastClose.entry.wasAborted

\* C20: for a limit L >= 0, as long as every Read call had a non-empty buffer
\* and returned a nil status, each call delivered at least one byte; so no more
\* than S such calls are made on a body of S bytes, and the call after them,
\* the (S + 1)th at the latest, returns io.EOF, the overflow or an error.
C20_StatusWithinBodyLengthPlusOne ==
    (limit >= 0 /\ ~zeroBufRead /\ nonNilReads = 0)
        => /\ gateReads <= Len(delivered)
           /\ gateReads <= Len(body)

\* C20 witness: a body of two bytes took three Read calls, the last of which
\* returned the first non-nil status.
C20_Witness ==
    /\ limit >= 0 /\ ~zeroBufRead
    /\ Len(body) = 2 /\ gateReads = 3
    /\ nonNilReads = 1 /\ lastRead.err = EOF

\* C12 (as claimed): when Read calls run concurrently on one reader, the
\* abort sequence is performed by at most one of them: the context never holds
\* more than one error, one Connection header call or one 413 payload.
C12_ConcurrentAbortEffectsOnce ==
    \A g \in DOMAIN gctx :
        /\ Len(gctx[g].Errors) <= 1
        /\ Count(gctx[g].calls, "Header") <= 1
        /\ Count(gctx[g].body, TooLargeJSON) <= 1

\* Request g is as its goroutine p's Read calls alone would have left it.
AsServedAlone(p) ==
    LET g == procs[p].gate
    IN  /\ gates[g] = procs[p].alone.mbr
        /\ gctx[g] = procs[p].alone.ctx
        /\ grdr[g].pos = procs[p].alone.pos
        /\ procs[p].delivered = procs[p].alone.delivered

\* A step of goroutine p leaves the other requests' readers, contexts and
\* streams as they were.
TouchesOwnRequestOnly(p) ==
    procs'[p] # procs[p]
        => \A g \in DOMAIN gates \ {procs[p].gate} :
              /\ gates'[g] = gates[g]
              /\ gctx'[g] = gctx[g]
              /\ grdr'[g] = grdr[g]

\* C19: with two requests served at the same time through one middleware, in
\* every interleaving of the steps of their Read calls each request's reader
\* (remaining, sawEOF, wasAborted), context, stream position and delivered
\* bytes are, between its calls, what its own Read calls on its own body give
\* when served alone; a step of one request changes nothing of the other, and
\* a request whose body is shorter than the limit is never aborted.
C19_RequestsAreIndependent ==
    /\ [](\A p \in DOMAIN procs : procs[p].pc = "idle" => AsServedAlone(p))
    /\ [](\A g \in DOMAIN gates :
              Len(gbody[g]) < limit
                  => (~gates[g].wasAborted /\ NoAbort(gctx[g])))
    /\ [][\A p \in DOMAIN procs : TouchesOwnRequestOnly(p)]_vars

\* C19 witness: request 1 has overflowed and was aborted, while request 2,
\* read at the same time, got its whole body and io.EOF and is not aborted.
C19_Witness ==
    /\ DOMAIN gates = Procs
    /\ \A p \in Procs : procs[p].pc = "idle" /\ procs[p].gate = p
    /\ gates[1].wasAborted /\ Len(gctx[1].Errors) = 1
    /\ Len(gbody[2]) = limit /\ limit >= 1
    /\ procs[2].delivered = gbody[2]
    /\ gates[2].sawEOF
    /\ ~gates[2].wasAborted /\ NoAbort(gctx[2])

=============================================================================
